---- MODULE Spec2Model ----
(***************************************************************************)
(* A model of the civvi server: the in-memory store (server/storage.ts,    *)
(* class MemStorage), the route handlers over it (server/routes.ts) and    *)
(* the registration / login / session handlers (server/auth.ts).           *)
(*                                                                         *)
(* A Map<number, T> is a function from its keys to records.  The store     *)
(* inserts with increasing keys and never re-inserts a deleted key, so the *)
(* iteration order of a Map (insertion order) is ascending key order.      *)
(* A value that may be undefined is a sequence: <<>> or <<value>>.         *)
(***************************************************************************)
EXTENDS Integers, Sequences, FiniteSets, TLC

(* ------------------------------ bounds -------------------------------- *)

\* createUser is not called once this many users exist
MaxUsers == 2
\* saveOrganization is not called once this many join rows were created
MaxSaved == 2
\* createEvent is not called once this many events exist
MaxEvents == 3
\* the events created where registrations for events are examined
MaxAttended == 1
\* addEventParticipant is not called once this many rows were created
MaxParticipants == 2
\* the clock stops here; event dates are timestamps 1..MaxTime+1
MaxTime == 2
\* the bytes of a derived key (64 in auth.ts, scaled down)
KeyLen == 2
\* the bytes of a salt (16 in auth.ts, scaled down)
SaltLen == 1
\* the longest malformed stored password that is tried
MaxStored == 3

(* ------------------------------ inputs -------------------------------- *)

\* the browsers (cookie jars), each with a session of its own
Clients == {"c1", "c2"}
\* the browser whose requests are handled one after another
Browser == {"c1"}
\* the requests that may be in flight at once
Procs == {"p1", "p2"}
\* usernames a registration or login may carry; "" is a missing field
Usernames == {"ann", "Ann", "bob"}
PlainUsernames == {"ann", "bob"}
Passwords == {"pw1"}
WrongPasswords == {"bad"}
\* the values randomBytes(16).toString("hex") may take
HexDigits == <<"0", "1", "2", "3", "4", "5", "6", "7",
               "8", "9", "a", "b", "c", "d", "e", "f">>
\* Buffer.prototype.toString("hex")
toHex(buf) ==
    [i \in 1..(2 * Len(buf)) |->
        IF i % 2 = 1 THEN HexDigits[(buf[(i + 1) \div 2] \div 16) + 1]
                     ELSE HexDigits[(buf[i \div 2] % 16) + 1]]
\* randomBytes(16).toString("hex"): two of its outcomes
Salts == {toHex([i \in 1..SaltLen |-> 16]), toHex([i \in 1..SaltLen |-> 32])}
Salt1 == toHex([i \in 1..SaltLen |-> 16])
\* a date field of a request body: 0 is an absent (falsy) one, a negative
\* number a string that new Date() cannot parse, the others timestamps
RawDates == (-1)..(MaxTime + 1)

VARIABLES
    usersMap,                   \* MemStorage.usersMap
    organizationsMap,           \* MemStorage.organizationsMap
    eventsMap,                  \* MemStorage.eventsMap
    eventParticipantsMap,       \* MemStorage.eventParticipantsMap
    savedOrganizationsMap,      \* MemStorage.savedOrganizationsMap
    userIdCounter,              \* MemStorage.userIdCounter
    orgIdCounter,               \* MemStorage.orgIdCounter
    eventIdCounter,             \* MemStorage.eventIdCounter
    eventParticipantIdCounter,  \* MemStorage.eventParticipantIdCounter
    savedOrgIdCounter,          \* MemStorage.savedOrgIdCounter
    sessions,   \* per client: the user id passport serialized, 0 for none
    now,        \* the clock new Date() reads
    res,        \* the last response sent to a client
    pc,         \* per request in flight: the await it is suspended at
    frame       \* per request in flight: its local variables

userVars == <<usersMap, userIdCounter>>
orgVars == <<organizationsMap, orgIdCounter>>
eventVars == <<eventsMap, eventIdCounter>>
participantVars == <<eventParticipantsMap, eventParticipantIdCounter>>
savedVars == <<savedOrganizationsMap, savedOrgIdCounter>>
storeVars == <<userVars, orgVars, eventVars, participantVars, savedVars>>
vars == <<storeVars, sessions, now, res, pc, frame>>

(* ------------------------- JavaScript helpers ------------------------- *)

\* String.prototype.toLowerCase on the usernames of the model
toLowerCase(s) ==
    CASE s = "Ann" -> "ann"
      [] OTHER -> s

\* { ...a, ...b }: the fields of a, overwritten and extended by those of b
Spread(a, b) ==
    [f \in DOMAIN a \cup DOMAIN b |-> IF f \in DOMAIN b THEN b[f] ELSE a[f]]

MinOf(S) == CHOOSE k \in S : \A j \in S : k <= j

RECURSIVE KeyOrder(_)
KeyOrder(S) ==
    IF S = {} THEN <<>> ELSE <<MinOf(S)>> \o KeyOrder(S \ {MinOf(S)})

\* Array.from(map.values()): the values in insertion order
Values(m) == [i \in 1..Cardinality(DOMAIN m) |-> m[KeyOrder(DOMAIN m)[i]]]

\* Array.prototype.find: the first element passing the test, or undefined
Find(seq, Test(_)) ==
    IF SelectSeq(seq, Test) = <<>> THEN <<>> ELSE <<Head(SelectSeq(seq, Test))>>

\* Array.prototype.some / includes
Some(seq, Test(_)) == \E i \in 1..Len(seq) : Test(seq[i])

\* Map.prototype.get / set / delete
MapGet(m, k) == IF k \in DOMAIN m THEN <<m[k]>> ELSE <<>>
MapSet(m, k, v) == [x \in DOMAIN m \cup {k} |-> IF x = k THEN v ELSE m[x]]
MapDelete(m, k) == [x \in DOMAIN m \ {k} |-> m[x]]

(* ------------------------------- auth --------------------------------- *)

\* A password is a string taken whole; a stored password and a salt are
\* sequences of characters, because the code takes them apart.
Chars == HexDigits \o <<"g", ".">>
CharCode(ch) == CHOOSE i \in 1..Len(Chars) : Chars[i] = ch
IsHexDigit(ch) == \E i \in 1..Len(HexDigits) : HexDigits[i] = ch
HexValue(ch) == (CHOOSE i \in 1..Len(HexDigits) : HexDigits[i] = ch) - 1

\* Buffer.from(str, "hex"): the bytes of the leading pairs of hex digits
RECURSIVE fromHex(_)
fromHex(str) ==
    IF Len(str) < 2 \/ ~IsHexDigit(str[1]) \/ ~IsHexDigit(str[2]) THEN <<>>
    ELSE <<HexValue(str[1]) * 16 + HexValue(str[2])>> \o fromHex(SubSeq(str, 3, Len(str)))

\* String.prototype.split("."): the pieces between the dots
RECURSIVE split(_)
split(str) ==
    IF \A i \in 1..Len(str) : str[i] # "." THEN <<str>>
    ELSE LET dot == MinOf({i \in 1..Len(str) : str[i] = "."})
         IN  <<SubSeq(str, 1, dot - 1)>> \o split(SubSeq(str, dot + 1, Len(str)))

PasswordCode(password) ==
    CASE password = "pw1" -> 1
      [] password = "pw2" -> 2
      [] password = "bad" -> 3
      [] OTHER -> 0

\* scrypt(password, salt, 64): a derived key of KeyLen bytes.  Its first byte
\* tells the password and the following bytes spell the salt, so keys derived
\* from different passwords under one salt differ (scrypt taken as free of
\* collisions).
scrypt(password, salt) ==
    [i \in 1..KeyLen |->
        IF i = 1 THEN PasswordCode(password)
        ELSE IF i - 1 <= Len(salt) THEN CharCode(salt[i - 1]) ELSE 0]

\* hashPassword writing the salt before the key
hashPassword_SaltFirst(password, salt) == salt \o <<".">> \o toHex(scrypt(password, salt))

\* `${buf.toString("hex")}.${salt}`, for a password that is not empty
hashPassword(password, salt) == toHex(scrypt(password, salt)) \o <<".">> \o salt

\* crypto.timingSafeEqual throws a RangeError for buffers of different length
timingSafeEqualThrows(a, b) == Len(a) # Len(b)
timingSafeEqual(a, b) == a = b

\* const [hashed, salt] = stored.split("."), undefined read as empty
storedHashed(stored) == split(stored)[1]
storedSalt(stored) == IF Len(split(stored)) >= 2 THEN split(stored)[2] ELSE <<>>

\* comparePasswords rejects (throws) instead of returning
\* comparePasswords accepting whatever is supplied
comparePasswords_Always(supplied, stored) == TRUE

comparePasswordsThrows(supplied, stored) ==
    /\ supplied # "" /\ stored # <<>>
    /\ storedHashed(stored) # <<>> /\ storedSalt(stored) # <<>>
    /\ timingSafeEqualThrows(fromHex(storedHashed(stored)),
                             scrypt(supplied, storedSalt(stored)))

\* the value comparePasswords returns when it returns
comparePasswords(supplied, stored) ==
    IF supplied = "" \/ stored = <<>> THEN FALSE
    ELSE IF storedHashed(stored) = <<>> \/ storedSalt(stored) = <<>> THEN FALSE
    ELSE timingSafeEqual(fromHex(storedHashed(stored)),
                         scrypt(supplied, storedSalt(stored)))

(* ------------------------------ storage ------------------------------- *)

getUser(id) == MapGet(usersMap, id)

\* getUserByUsername comparing the usernames as they are written
getUserByUsername_CaseSensitive(username) ==
    LET Same(user) == user.username = username
    IN  Find(Values(usersMap), Same)

getUserByUsername(username) ==
    LET Same(user) == toLowerCase(user.username) = toLowerCase(username)
    IN  Find(Values(usersMap), Same)

\* createUser refusing a username that is stored already
createUser_UniqueUsername(id, insertUser) ==
    IF getUserByUsername(insertUser.username) # <<>> THEN usersMap
    ELSE MapSet(usersMap, id, Spread(Spread([id |-> id], insertUser), [points |-> 0]))

\* the users map after createUser stored insertUser under the next id
createUser(id, insertUser) ==
    MapSet(usersMap, id, Spread(Spread([id |-> id], insertUser), [points |-> 0]))

updateUser(users, id, userData) ==
    IF id \notin DOMAIN users THEN users
    ELSE MapSet(users, id, Spread(users[id], userData))

getOrganization(orgs, id) == MapGet(orgs, id)

\* getOrganizationByUserId returning the first organization, whoever owns it
getOrganizationByUserId_Any(userId) ==
    LET Owned(org) == TRUE
    IN  Find(Values(organizationsMap), Owned)

getOrganizationByUserId(userId) ==
    LET Owned(org) == org.userId = userId
    IN  Find(Values(organizationsMap), Owned)

createOrganization(id, org) ==
    MapSet(organizationsMap, id, Spread(Spread([id |-> id], org), [followers |-> 0]))

updateOrganization(orgs, id, orgData) ==
    IF id \notin DOMAIN orgs THEN orgs
    ELSE MapSet(orgs, id, Spread(orgs[id], orgData))

\* saveOrganization up to its first await: the join row is stored
saveOrganizationInsert(saved, id, savedOrg) ==
    MapSet(saved, id, Spread([id |-> id], savedOrg))

\* saveOrganization after `org` was fetched: the follower count is bumped
saveOrganizationCount(orgs, org) ==
    IF org = <<>> THEN orgs
    ELSE updateOrganization(orgs, org[1].id, [followers |-> org[1].followers + 1])

getSavedOrganizations(saved, orgs, userId) ==
    LET Mine(s) == s.userId = userId
        savedOrgs == SelectSeq(Values(saved), Mine)
        Listed(org) == \E i \in 1..Len(savedOrgs) : savedOrgs[i].organizationId = org.id
    IN  SelectSeq(Values(orgs), Listed)

\* unsaveOrganization: the row it looks for
unsaveOrganizationFind(saved, userId, organizationId) ==
    LET Hit(s) == s.userId = userId /\ s.organizationId = organizationId
    IN  Find(Values(saved), Hit)

\* unsaveOrganization up to its first await: the row, if found, is deleted
unsaveOrganizationDelete(saved, savedOrg) ==
    IF savedOrg = <<>> THEN saved ELSE MapDelete(saved, savedOrg[1].id)

\* unsaveOrganization after `org` was fetched: the follower count is lowered
\* unsaveOrganization leaving the followers count alone
unsaveOrganizationCount_NoDecrement(orgs, org) == orgs

unsaveOrganizationCount(orgs, org) ==
    IF org # <<>> /\ org[1].followers > 0
    THEN updateOrganization(orgs, org[1].id, [followers |-> org[1].followers - 1])
    ELSE orgs

(* -------------------------- storage: events --------------------------- *)

getEvent(events, id) == MapGet(events, id)

\* new Date(x) is an Invalid Date (its getTime() is NaN)
isInvalidDate(x) == x < 0

\* Array.prototype.sort with (a, b) => a.date - b.date: one step of the
\* stable sort, e goes behind the elements that are not later than it
InsertByDate(sorted, e) ==
    LET n == Cardinality({i \in 1..Len(sorted) : sorted[i].date <= e.date})
    IN  SubSeq(sorted, 1, n) \o <<e>> \o SubSeq(sorted, n + 1, Len(sorted))

RECURSIVE SortByDate(_)
SortByDate(seq) ==
    IF seq = <<>> THEN <<>>
    ELSE InsertByDate(SortByDate(SubSeq(seq, 1, Len(seq) - 1)), seq[Len(seq)])

\* getUpcomingEvents keeping the events dated at the time of the call
getUpcomingEvents_NotStrict(events, clock) ==
    LET Upcoming(event) == ~isInvalidDate(event.date) /\ event.date >= clock
    IN  SortByDate(SelectSeq(Values(events), Upcoming))

getUpcomingEvents(events, clock) ==
    LET Upcoming(event) == ~isInvalidDate(event.date) /\ event.date > clock
    IN  SortByDate(SelectSeq(Values(events), Upcoming))

createEvent(events, id, eventData) ==
    MapSet(events, id, Spread([id |-> id], eventData))

\* updateEvent storing the partial record under an id that is absent
updateEvent_Upsert(events, id, eventData) ==
    IF id \notin DOMAIN events THEN MapSet(events, id, eventData)
    ELSE MapSet(events, id, Spread(events[id], eventData))

updateEvent(events, id, eventData) ==
    IF id \notin DOMAIN events THEN events
    ELSE MapSet(events, id, Spread(events[id], eventData))

addEventParticipant(participants, id, participant) ==
    MapSet(participants, id, Spread([id |-> id], participant))

\* getEventParticipants matching the event id against the wrong column
getEventParticipants_ByUser(participants, eventId) ==
    LET OfEvent(p) == p.userId = eventId
    IN  SelectSeq(Values(participants), OfEvent)

getEventParticipants(participants, eventId) ==
    LET OfEvent(p) == p.eventId = eventId
    IN  SelectSeq(Values(participants), OfEvent)

getUserEvents(participants, events, userId) ==
    LET Mine(p) == p.userId = userId
        userParticipations == SelectSeq(Values(participants), Mine)
        Attended(event) ==
            \E i \in 1..Len(userParticipations) : userParticipations[i].eventId = event.id
    IN  SelectSeq(Values(events), Attended)

(* ---------------------------- responses ------------------------------- *)

\* a response, with the request it answers: the route, the browser, the
\* session principal (0 for none), the :id parameter, the username of the
\* body, and what else of the body the handler reads
Response(op, c, user, target, status, body) ==
    [op |-> op, client |-> c, user |-> user, target |-> target, name |-> "",
     request |-> <<>>, status |-> status, body |-> body]

\* req.isAuthenticated(): the session's id deserializes to a stored user
isAuthenticated(c) == sessions[c] # 0 /\ getUser(sessions[c]) # <<>>

\* the response copy with the password left in
WithoutPassword_Kept(user) == user

\* delete userResponse.password
WithoutPassword(user) == [f \in DOMAIN user \ {"password"} |-> user[f]]

\* a request handled with no other request in flight leaves these alone
Alone == UNCHANGED <<pc, frame>>

(* ------------------------------ Init ---------------------------------- *)

NoFrame == [op |-> "none", client |-> "c1", user |-> 0, target |-> 0, name |-> "",
            password |-> "", organizer |-> FALSE, found |-> <<>>, status |-> 0]

Init ==
    /\ usersMap = <<>>
    /\ organizationsMap = <<>>
    /\ eventsMap = <<>>
    /\ eventParticipantsMap = <<>>
    /\ savedOrganizationsMap = <<>>
    /\ userIdCounter = 1
    /\ orgIdCounter = 1
    /\ eventIdCounter = 1
    /\ eventParticipantIdCounter = 1
    /\ savedOrgIdCounter = 1
    /\ sessions = [c \in Clients |-> 0]
    /\ now = 0
    /\ res = Response("none", "c1", 0, 0, 0, <<>>)
    /\ pc = [p \in Procs |-> "idle"]
    /\ frame = [p \in Procs |-> NoFrame]

(* ------------------- POST /api/register (one request) ----------------- *)

Register(c, username, password, salt, isOrganizer, hasOrganization) ==
    LET userToCreate == [username |-> username, isOrganizer |-> isOrganizer,
                         password |-> hashPassword(password, salt)]
        id == userIdCounter
        Reply(user, status, body) ==
            [Response("register", c, user, 0, status, body) EXCEPT !.name = username]
    IN
    /\ Alone
    /\ UNCHANGED <<eventVars, participantVars, savedVars, now>>
    /\ IF username = "" \/ password = ""
       THEN /\ res' = Reply(0, 400, <<>>)
            /\ UNCHANGED <<userVars, orgVars, sessions>>
       ELSE IF getUserByUsername(username) # <<>>
       THEN /\ res' = Reply(0, 400, <<>>)
            /\ UNCHANGED <<userVars, orgVars, sessions>>
       ELSE /\ userIdCounter <= MaxUsers
            /\ usersMap' = createUser(id, userToCreate)
            /\ userIdCounter' = userIdCounter + 1
            /\ IF isOrganizer /\ hasOrganization
               THEN /\ organizationsMap' =
                         createOrganization(orgIdCounter, [name |-> "org", userId |-> id])
                    /\ orgIdCounter' = orgIdCounter + 1
               ELSE UNCHANGED orgVars
            /\ sessions' = [sessions EXCEPT ![c] = id]
            /\ res' = Reply(id, 201, <<WithoutPassword(usersMap'[id])>>)

(* -------------------- POST /api/login, /api/logout -------------------- *)

Login(c, username, password) ==
    LET user == getUserByUsername(username)
        Reply(principal, status, body) ==
            [Response("login", c, principal, 0, status, body)
                EXCEPT !.name = username, !.request = [password |-> password]]
    IN
    /\ Alone
    /\ UNCHANGED <<storeVars, now>>
    /\ IF user # <<>> /\ comparePasswordsThrows(password, user[1].password)
       THEN /\ res' = Reply(0, 500, <<>>)
            /\ UNCHANGED sessions
       ELSE IF user = <<>> \/ ~comparePasswords(password, user[1].password)
       THEN /\ res' = Reply(0, 401, <<"Invalid credentials">>)
            /\ UNCHANGED sessions
       ELSE /\ sessions' = [sessions EXCEPT ![c] = user[1].id]
            /\ res' = Reply(user[1].id, 200, <<WithoutPassword(user[1])>>)

\* the logout handler leaving the session in place
Logout_KeepsSession(c) ==
    /\ Alone
    /\ UNCHANGED <<storeVars, now, sessions>>
    /\ res' = Response("logout", c, 0, 0, 200, <<>>)

Logout(c) ==
    /\ Alone
    /\ UNCHANGED <<storeVars, now>>
    /\ sessions' = [sessions EXCEPT ![c] = 0]
    /\ res' = Response("logout", c, 0, 0, 200, <<>>)

(* ------------------- POST /api/organizations/:id/save ----------------- *)

\* the save handler with a store that numbers rows by the size of its map
Save_BySize(c, organizationId) ==
    LET userId == sessions[c]
        savedOrgs == getSavedOrganizations(savedOrganizationsMap, organizationsMap, userId)
        AlreadySaved(org) == org.id = organizationId
        id == Cardinality(DOMAIN savedOrganizationsMap) + 1
        savedOrg == [userId |-> userId, organizationId |-> organizationId]
    IN
    /\ Alone
    /\ UNCHANGED <<userVars, orgIdCounter, eventVars, participantVars, sessions, now>>
    /\ IF ~isAuthenticated(c)
       THEN /\ res' = Response("save", c, 0, organizationId, 401, <<>>)
            /\ UNCHANGED <<organizationsMap, savedVars>>
       ELSE IF getOrganization(organizationsMap, organizationId) = <<>>
       THEN /\ res' = Response("save", c, userId, organizationId, 404, <<>>)
            /\ UNCHANGED <<organizationsMap, savedVars>>
       ELSE IF Some(savedOrgs, AlreadySaved)
       THEN /\ res' = Response("save", c, userId, organizationId, 400, <<>>)
            /\ UNCHANGED <<organizationsMap, savedVars>>
       ELSE /\ savedOrgIdCounter <= MaxSaved
            /\ savedOrganizationsMap' =
                   saveOrganizationInsert(savedOrganizationsMap, id, savedOrg)
            /\ savedOrgIdCounter' = savedOrgIdCounter + 1
            /\ organizationsMap' =
                   saveOrganizationCount(organizationsMap,
                                         getOrganization(organizationsMap, organizationId))
            /\ res' = Response("save", c, userId, organizationId, 201,
                               <<savedOrganizationsMap'[id]>>)

Save(c, organizationId) ==
    LET userId == sessions[c]
        savedOrgs == getSavedOrganizations(savedOrganizationsMap, organizationsMap, userId)
        AlreadySaved(org) == org.id = organizationId
        id == savedOrgIdCounter
        savedOrg == [userId |-> userId, organizationId |-> organizationId]
    IN
    /\ Alone
    /\ UNCHANGED <<userVars, orgIdCounter, eventVars, participantVars, sessions, now>>
    /\ IF ~isAuthenticated(c)
       THEN /\ res' = Response("save", c, 0, organizationId, 401, <<>>)
            /\ UNCHANGED <<organizationsMap, savedVars>>
       ELSE IF getOrganization(organizationsMap, organizationId) = <<>>
       THEN /\ res' = Response("save", c, userId, organizationId, 404, <<>>)
            /\ UNCHANGED <<organizationsMap, savedVars>>
       ELSE IF Some(savedOrgs, AlreadySaved)
       THEN /\ res' = Response("save", c, userId, organizationId, 400, <<>>)
            /\ UNCHANGED <<organizationsMap, savedVars>>
       ELSE /\ savedOrgIdCounter <= MaxSaved
            /\ savedOrganizationsMap' =
                   saveOrganizationInsert(savedOrganizationsMap, id, savedOrg)
            /\ savedOrgIdCounter' = savedOrgIdCounter + 1
            /\ organizationsMap' =
                   saveOrganizationCount(organizationsMap,
                                         getOrganization(organizationsMap, organizationId))
            /\ res' = Response("save", c, userId, organizationId, 201,
                               <<savedOrganizationsMap'[id]>>)

(* ----------------- DELETE /api/organizations/:id/unsave --------------- *)

\* the unsave handler without its isAuthenticated guard
Unsave_Unguarded(c, organizationId) ==
    LET userId == sessions[c]
        savedOrg == unsaveOrganizationFind(savedOrganizationsMap, userId, organizationId)
    IN
    /\ Alone
    /\ UNCHANGED <<userVars, orgIdCounter, savedOrgIdCounter, eventVars, participantVars,
                   sessions, now>>
    /\ savedOrganizationsMap' = unsaveOrganizationDelete(savedOrganizationsMap, savedOrg)
    /\ organizationsMap' =
           IF savedOrg = <<>> THEN organizationsMap
           ELSE unsaveOrganizationCount(organizationsMap,
                    getOrganization(organizationsMap, organizationId))
    /\ res' = Response("unsave", c, userId, organizationId, 204, <<>>)

Unsave(c, organizationId) ==
    LET userId == sessions[c]
        savedOrg == unsaveOrganizationFind(savedOrganizationsMap, userId, organizationId)
    IN
    /\ Alone
    /\ UNCHANGED <<userVars, orgIdCounter, savedOrgIdCounter, eventVars, participantVars,
                   sessions, now>>
    /\ IF ~isAuthenticated(c)
       THEN /\ res' = Response("unsave", c, 0, organizationId, 401, <<>>)
            /\ UNCHANGED <<organizationsMap, savedOrganizationsMap>>
       ELSE /\ savedOrganizationsMap' =
                   unsaveOrganizationDelete(savedOrganizationsMap, savedOrg)
            /\ organizationsMap' =
                   IF savedOrg = <<>> THEN organizationsMap
                   ELSE unsaveOrganizationCount(organizationsMap,
                            getOrganization(organizationsMap, organizationId))
            /\ res' = Response("unsave", c, userId, organizationId, 204, <<>>)

(* --------------------- PUT /api/organizations/:id --------------------- *)

\* request bodies: req.body is stored unfiltered, so any partial Organization
OrganizationBodies == {[followers |-> 0], [id |-> 2]}
\* ... the owner field among them
\* ... the follower count among them, set below zero
FollowerBodies == {[followers |-> -1]}
OrganizationOwnerBodies == {[userId |-> 2]}

PutOrganization(c, id, body) ==
    LET organization == getOrganization(organizationsMap, id)
    IN
    /\ Alone
    /\ UNCHANGED <<userVars, orgIdCounter, eventVars, participantVars, savedVars,
                   sessions, now>>
    /\ IF ~isAuthenticated(c)
       THEN /\ res' = Response("putOrganization", c, 0, id, 401, <<>>)
            /\ UNCHANGED organizationsMap
       ELSE IF organization = <<>>
       THEN /\ res' = Response("putOrganization", c, sessions[c], id, 404, <<>>)
            /\ UNCHANGED organizationsMap
       ELSE IF organization[1].userId # sessions[c]
       THEN /\ res' = Response("putOrganization", c, sessions[c], id, 403, <<>>)
            /\ UNCHANGED organizationsMap
       ELSE /\ organizationsMap' = updateOrganization(organizationsMap, id, body)
            /\ res' = Response("putOrganization", c, sessions[c], id, 200,
                               <<organizationsMap'[id]>>)

(* --------------------------- POST /api/events ------------------------- *)

CreateEvent(c, date, complete) ==
    LET user == getUser(sessions[c])
        organization == getOrganizationByUserId(sessions[c])
        id == eventIdCounter
        Reply(status, body) ==
            [Response("createEvent", c, sessions[c], 0, status, body)
                EXCEPT !.request = [date |-> date, complete |-> complete]]
    IN
    /\ Alone
    /\ UNCHANGED <<userVars, orgVars, participantVars, savedVars, sessions, now>>
    /\ IF ~isAuthenticated(c)
       THEN res' = Reply(401, <<>>) /\ UNCHANGED eventVars
       ELSE IF ~user[1].isOrganizer
       THEN res' = Reply(403, <<>>) /\ UNCHANGED eventVars
       ELSE IF date = 0
       THEN res' = Reply(400, <<"Date is required">>) /\ UNCHANGED eventVars
       ELSE IF ~complete
       THEN res' = Reply(400, <<"Event title is required">>) /\ UNCHANGED eventVars
       ELSE IF isInvalidDate(date)
       THEN res' = Reply(400, <<"Validation error: Expected date, received invalid date format">>)
            /\ UNCHANGED eventVars
       ELSE IF organization = <<>>
       THEN res' = Reply(400, <<"Organization not found for current user">>)
            /\ UNCHANGED eventVars
       ELSE /\ eventIdCounter <= MaxEvents
            /\ eventsMap' = createEvent(eventsMap, id,
                                [organizerId |-> sessions[c],
                                 organizationId |-> organization[1].id,
                                 date |-> date])
            /\ eventIdCounter' = eventIdCounter + 1
            /\ res' = Reply(201, <<eventsMap'[id]>>)

(* ------------- POST /api/events, the older copy of the handler -------- *)

\* request bodies: an event with or without the ids of an organization and
\* an organizer in it, and one that has no date
OlderEventBodies ==
    {[date |-> 1],
     [date |-> 1, organizationId |-> MaxUsers + 1],
     [date |-> 1, organizationId |-> 1, organizerId |-> MaxUsers + 1],
     [date |-> 0]}

\* insertEventSchema.parse throws a ZodError for an event without a date
parseThrows(event) == event.date = 0 \/ isInvalidDate(event.date)

CreateEventOlder(c, body) ==
    LET user == getUser(sessions[c])
        eventData == Spread(body, [organizerId |-> sessions[c]])
        id == eventIdCounter
        Reply(status, content) ==
            [Response("createEventOlder", c, sessions[c], 0, status, content)
                EXCEPT !.request = body]
    IN
    /\ Alone
    /\ UNCHANGED <<userVars, orgVars, participantVars, savedVars, sessions, now>>
    /\ IF ~isAuthenticated(c)
       THEN res' = Reply(401, <<>>) /\ UNCHANGED eventVars
       ELSE IF ~user[1].isOrganizer
       THEN res' = Reply(403, <<>>) /\ UNCHANGED eventVars
       ELSE IF parseThrows(eventData)
       THEN res' = Reply(400, <<>>) /\ UNCHANGED eventVars
       ELSE /\ eventIdCounter <= MaxEvents
            /\ eventsMap' = createEvent(eventsMap, id, eventData)
            /\ eventIdCounter' = eventIdCounter + 1
            /\ res' = Reply(201, <<eventsMap'[id]>>)

(* -------------------------- PUT /api/events/:id ----------------------- *)

\* request bodies: req.body is stored unfiltered, so any partial Event
EventBodies == {[date |-> 1], [date |-> -1], [id |-> 2]}
\* ... the organizer field among them: a user id that was never assigned
EventOwnerBodies == {[organizerId |-> MaxUsers + 1]}

\* the event update handler without its ownership check
PutEvent_NoOwnerCheck(c, id, body) ==
    LET event == getEvent(eventsMap, id)
    IN
    /\ Alone
    /\ UNCHANGED <<userVars, orgVars, eventIdCounter, participantVars, savedVars,
                   sessions, now>>
    /\ IF ~isAuthenticated(c)
       THEN res' = Response("putEvent", c, 0, id, 401, <<>>) /\ UNCHANGED eventsMap
       ELSE IF event = <<>>
       THEN res' = Response("putEvent", c, sessions[c], id, 404, <<>>)
            /\ UNCHANGED eventsMap
       ELSE /\ eventsMap' = updateEvent(eventsMap, id, body)
            /\ res' = Response("putEvent", c, sessions[c], id, 200, <<eventsMap'[id]>>)

PutEvent(c, id, body) ==
    LET event == getEvent(eventsMap, id)
    IN
    /\ Alone
    /\ UNCHANGED <<userVars, orgVars, eventIdCounter, participantVars, savedVars,
                   sessions, now>>
    /\ IF ~isAuthenticated(c)
       THEN res' = Response("putEvent", c, 0, id, 401, <<>>) /\ UNCHANGED eventsMap
       ELSE IF event = <<>>
       THEN res' = Response("putEvent", c, sessions[c], id, 404, <<>>)
            /\ UNCHANGED eventsMap
       ELSE IF event[1].organizerId # sessions[c]
       THEN res' = Response("putEvent", c, sessions[c], id, 403, <<>>)
            /\ UNCHANGED eventsMap
       ELSE /\ eventsMap' = updateEvent(eventsMap, id, body)
            /\ res' = Response("putEvent", c, sessions[c], id, 200, <<eventsMap'[id]>>)

(* --------------------- POST /api/events/:id/register ------------------ *)

\* the event registration handler without its lookup of the event
RegisterForEvent_NoLookup(c, eventId) ==
    LET userId == sessions[c]
        participants == getEventParticipants(eventParticipantsMap, eventId)
        Mine(p) == p.userId = userId
        id == eventParticipantIdCounter
    IN
    /\ Alone
    /\ UNCHANGED <<userVars, orgVars, eventVars, savedVars, sessions, now>>
    /\ IF ~isAuthenticated(c)
       THEN res' = Response("registerForEvent", c, 0, eventId, 401, <<>>)
            /\ UNCHANGED participantVars
       ELSE IF Some(participants, Mine)
       THEN res' = Response("registerForEvent", c, userId, eventId, 400, <<>>)
            /\ UNCHANGED participantVars
       ELSE /\ eventParticipantIdCounter <= MaxParticipants
            /\ eventParticipantsMap' =
                   addEventParticipant(eventParticipantsMap, id,
                       [eventId |-> eventId, userId |-> userId, status |-> "registered"])
            /\ eventParticipantIdCounter' = eventParticipantIdCounter + 1
            /\ res' = Response("registerForEvent", c, userId, eventId, 201,
                               <<eventParticipantsMap'[id]>>)

RegisterForEvent(c, eventId) ==
    LET userId == sessions[c]
        participants == getEventParticipants(eventParticipantsMap, eventId)
        Mine(p) == p.userId = userId
        id == eventParticipantIdCounter
    IN
    /\ Alone
    /\ UNCHANGED <<userVars, orgVars, eventVars, savedVars, sessions, now>>
    /\ IF ~isAuthenticated(c)
       THEN res' = Response("registerForEvent", c, 0, eventId, 401, <<>>)
            /\ UNCHANGED participantVars
       ELSE IF getEvent(eventsMap, eventId) = <<>>
       THEN res' = Response("registerForEvent", c, userId, eventId, 404, <<>>)
            /\ UNCHANGED participantVars
       ELSE IF Some(participants, Mine)
       THEN res' = Response("registerForEvent", c, userId, eventId, 400, <<>>)
            /\ UNCHANGED participantVars
       ELSE /\ eventParticipantIdCounter <= MaxParticipants
            /\ eventParticipantsMap' =
                   addEventParticipant(eventParticipantsMap, id,
                       [eventId |-> eventId, userId |-> userId, status |-> "registered"])
            /\ eventParticipantIdCounter' = eventParticipantIdCounter + 1
            /\ res' = Response("registerForEvent", c, userId, eventId, 201,
                               <<eventParticipantsMap'[id]>>)

(* ------------------- GET /api/events (no organizerId) ----------------- *)

GetEvents(c) ==
    /\ Alone
    /\ UNCHANGED <<storeVars, sessions, now>>
    /\ res' = Response("getEvents", c, 0, 0, 200, getUpcomingEvents(eventsMap, now))

\* time passes between requests
Tick ==
    /\ now < MaxTime
    /\ now' = now + 1
    /\ res' = Response("none", "c1", 0, 0, 0, <<>>)
    /\ UNCHANGED <<storeVars, sessions, pc, frame>>

(* ------------------- hashPassword and comparePasswords ---------------- *)

\* passwords a caller may supply, the empty one among them
SuppliedPasswords == {"", "pw1", "pw2", "bad"}

\* stored values that hashPassword did not write: every string of at most
\* MaxStored characters over two hex digits, a letter that is none, and the dot
StoredChars == {"0", "1", "g", "."}
MalformedStored == UNION {[1..n -> StoredChars] : n \in 0..MaxStored}

\* what a call of comparePasswords came to
Outcome(supplied, stored) ==
    [throws |-> comparePasswordsThrows(supplied, stored),
     value |-> ~comparePasswordsThrows(supplied, stored) /\ comparePasswords(supplied, stored)]

\* comparePasswords(supplied, await hashPassword(password)), salt as drawn
HashAndCompare(password, salt, supplied) ==
    /\ password # ""
    /\ Alone
    /\ UNCHANGED <<storeVars, sessions, now>>
    /\ res' = [Response("hashAndCompare", "c1", 0, 0, 0,
                        <<Outcome(supplied, hashPassword(password, salt))>>)
                EXCEPT !.name = supplied,
                       !.request = [password |-> password, salt |-> salt,
                                    stored |-> hashPassword(password, salt)]]

\* comparePasswords(supplied, stored) for a stored value of any shape
CompareStored(supplied, stored) ==
    /\ Alone
    /\ UNCHANGED <<storeVars, sessions, now>>
    /\ res' = [Response("comparePasswords", "c1", 0, 0, 0, <<Outcome(supplied, stored)>>)
                EXCEPT !.name = supplied, !.request = [stored |-> stored]]

(* ------------- updateUser, updateOrganization, updateEvent ------------ *)

\* partial User records
UserPartials == {[name |-> "Ann A."], [points |-> 5, bio |-> "hi"]}

\* what an update call returns: the record now stored, or undefined
Updated(before, after, id) == IF id \in DOMAIN before THEN <<after[id]>> ELSE <<>>

\* a call made on the store
StoreCall(op, id, partial, returned) ==
    [Response(op, "c1", 0, id, 0, returned) EXCEPT !.request = partial]

UpdateUserCall(id, userData) ==
    /\ Alone
    /\ UNCHANGED <<userIdCounter, orgVars, eventVars, participantVars, savedVars,
                   sessions, now>>
    /\ usersMap' = updateUser(usersMap, id, userData)
    /\ res' = StoreCall("updateUser", id, userData, Updated(usersMap, usersMap', id))

UpdateOrganizationCall(id, orgData) ==
    /\ Alone
    /\ UNCHANGED <<userVars, orgIdCounter, eventVars, participantVars, savedVars,
                   sessions, now>>
    /\ organizationsMap' = updateOrganization(organizationsMap, id, orgData)
    /\ res' = StoreCall("updateOrganization", id, orgData,
                        Updated(organizationsMap, organizationsMap', id))

UpdateEventCall(id, eventData) ==
    /\ Alone
    /\ UNCHANGED <<userVars, orgVars, eventIdCounter, participantVars, savedVars,
                   sessions, now>>
    /\ eventsMap' = updateEvent(eventsMap, id, eventData)
    /\ res' = StoreCall("updateEvent", id, eventData, Updated(eventsMap, eventsMap', id))

(* --------------------------- GET /api/user ---------------------------- *)

GetUser(c) ==
    /\ Alone
    /\ UNCHANGED <<storeVars, sessions, now>>
    /\ IF ~isAuthenticated(c)
       THEN res' = Response("getUser", c, 0, 0, 401, <<>>)
       ELSE res' = Response("getUser", c, sessions[c], 0, 200,
                            <<WithoutPassword(getUser(sessions[c])[1])>>)

(* ------------------------ PUT /api/user/profile ----------------------- *)

\* request bodies: only name, bio and interests are read from req.body
ProfileBodies == {[name |-> "Ann A.", bio |-> "hi", interests |-> "art"],
                  [name |-> "Ann B.", isOrganizer |-> TRUE, password |-> <<"0">>]}

\* req.body.<field>, undefined when the body has no such field
Field(body, field) == IF field \in DOMAIN body THEN body[field] ELSE "undefined"

\* the profile handler handing req.body whole to updateUser
PutProfile_WholeBody(c, body) ==
    LET id == sessions[c]
        userData == body
    IN
    /\ Alone
    /\ UNCHANGED <<userIdCounter, orgVars, eventVars, participantVars, savedVars,
                   sessions, now>>
    /\ IF ~isAuthenticated(c)
       THEN res' = Response("putProfile", c, 0, 0, 401, <<>>) /\ UNCHANGED usersMap
       ELSE IF id \notin DOMAIN usersMap
       THEN res' = Response("putProfile", c, id, 0, 404, <<>>) /\ UNCHANGED usersMap
       ELSE /\ usersMap' = updateUser(usersMap, id, userData)
            /\ res' = Response("putProfile", c, id, 0, 200,
                               <<WithoutPassword(usersMap'[id])>>)

PutProfile(c, body) ==
    LET id == sessions[c]
        userData == [name |-> Field(body, "name"), bio |-> Field(body, "bio"),
                     interests |-> Field(body, "interests")]
    IN
    /\ Alone
    /\ UNCHANGED <<userIdCounter, orgVars, eventVars, participantVars, savedVars,
                   sessions, now>>
    /\ IF ~isAuthenticated(c)
       THEN res' = Response("putProfile", c, 0, 0, 401, <<>>) /\ UNCHANGED usersMap
       ELSE IF id \notin DOMAIN usersMap
       THEN res' = Response("putProfile", c, id, 0, 404, <<>>) /\ UNCHANGED usersMap
       ELSE /\ usersMap' = updateUser(usersMap, id, userData)
            /\ res' = Response("putProfile", c, id, 0, 200,
                               <<WithoutPassword(usersMap'[id])>>)

(* ------------ GET /api/user/events, /api/user/saved-organizations ----- *)

GetUserEvents(c) ==
    /\ Alone
    /\ UNCHANGED <<storeVars, sessions, now>>
    /\ IF ~isAuthenticated(c)
       THEN res' = Response("getUserEvents", c, 0, 0, 401, <<>>)
       ELSE res' = Response("getUserEvents", c, sessions[c], 0, 200,
                            getUserEvents(eventParticipantsMap, eventsMap, sessions[c]))

GetSaved(c) ==
    /\ Alone
    /\ UNCHANGED <<storeVars, sessions, now>>
    /\ IF ~isAuthenticated(c)
       THEN res' = Response("getSaved", c, 0, 0, 401, <<>>)
       ELSE res' = Response("getSaved", c, sessions[c], 0, 200,
                            getSavedOrganizations(savedOrganizationsMap, organizationsMap,
                                                  sessions[c]))

(* ---------------- requests in flight: suspended at awaits ------------- *)
(* A handler runs from one await to the next without interruption; at an   *)
(* await any other handler may run.  pc[p] names the await request p is    *)
(* suspended at, frame[p] holds the values its handler has read so far.    *)

Free(p) == pc[p] \in {"idle", "done"}

Arrive(p, op, c, target) ==
    [NoFrame EXCEPT !.op = op, !.client = c, !.user = sessions[c], !.target = target]

Suspend(p, label, f) ==
    /\ pc' = [pc EXCEPT ![p] = label]
    /\ frame' = [frame EXCEPT ![p] = f]

Finish(p, status) ==
    /\ pc' = [pc EXCEPT ![p] = "done"]
    /\ frame' = [frame EXCEPT ![p] = [frame[p] EXCEPT !.status = status, !.found = <<>>]]

\* POST /api/organizations/:id/save up to `await storage.getOrganization`
SaveBegin(p, c, organizationId) ==
    /\ Free(p)
    /\ isAuthenticated(c)
    /\ Suspend(p, "save:getOrganization",
               [Arrive(p, "save", c, organizationId) EXCEPT
                    !.found = getOrganization(organizationsMap, organizationId)])
    /\ UNCHANGED <<storeVars, sessions, now, res>>

\* ... up to `await storage.getSavedOrganizations`
SaveLookup(p) ==
    /\ pc[p] = "save:getOrganization"
    /\ IF frame[p].found = <<>>
       THEN Finish(p, 404)
       ELSE Suspend(p, "save:getSavedOrganizations",
                    [frame[p] EXCEPT !.found =
                        getSavedOrganizations(savedOrganizationsMap, organizationsMap,
                                              frame[p].user)])
    /\ UNCHANGED <<storeVars, sessions, now, res>>

\* ... into storage.saveOrganization, up to its `await this.getOrganization`
SaveInsert(p) ==
    LET AlreadySaved(org) == org.id = frame[p].target
        id == savedOrgIdCounter
    IN
    /\ pc[p] = "save:getSavedOrganizations"
    /\ UNCHANGED <<userVars, orgVars, eventVars, participantVars, sessions, now, res>>
    /\ IF Some(frame[p].found, AlreadySaved)
       THEN Finish(p, 400) /\ UNCHANGED savedVars
       ELSE /\ savedOrgIdCounter <= MaxSaved
            /\ savedOrganizationsMap' =
                   saveOrganizationInsert(savedOrganizationsMap, id,
                       [userId |-> frame[p].user, organizationId |-> frame[p].target])
            /\ savedOrgIdCounter' = savedOrgIdCounter + 1
            /\ Suspend(p, "saveOrganization:getOrganization",
                       [frame[p] EXCEPT !.found =
                            getOrganization(organizationsMap, frame[p].target)])

\* ... storage.saveOrganization from the fetched `org` to the response
SaveCount(p) ==
    /\ pc[p] = "saveOrganization:getOrganization"
    /\ organizationsMap' = saveOrganizationCount(organizationsMap, frame[p].found)
    /\ Finish(p, 201)
    /\ UNCHANGED <<userVars, orgIdCounter, eventVars, participantVars, savedVars,
                   sessions, now, res>>

\* DELETE /api/organizations/:id/unsave into storage.unsaveOrganization,
\* up to its `await this.getOrganization`
UnsaveBegin(p, c, organizationId) ==
    LET savedOrg == unsaveOrganizationFind(savedOrganizationsMap, sessions[c],
                                           organizationId)
    IN
    /\ Free(p)
    /\ isAuthenticated(c)
    /\ savedOrganizationsMap' = unsaveOrganizationDelete(savedOrganizationsMap, savedOrg)
    /\ IF savedOrg = <<>>
       THEN /\ pc' = [pc EXCEPT ![p] = "done"]
            /\ frame' = [frame EXCEPT ![p] =
                   [Arrive(p, "unsave", c, organizationId) EXCEPT !.status = 204]]
       ELSE Suspend(p, "unsaveOrganization:getOrganization",
                    [Arrive(p, "unsave", c, organizationId) EXCEPT
                         !.found = getOrganization(organizationsMap, organizationId)])
    /\ UNCHANGED <<userVars, orgVars, eventVars, participantVars, savedOrgIdCounter,
                   sessions, now, res>>

\* ... storage.unsaveOrganization from the fetched `org` to the response
UnsaveCount(p) ==
    /\ pc[p] = "unsaveOrganization:getOrganization"
    /\ organizationsMap' = unsaveOrganizationCount(organizationsMap, frame[p].found)
    /\ Finish(p, 204)
    /\ UNCHANGED <<userVars, orgIdCounter, eventVars, participantVars, savedVars,
                   sessions, now, res>>

\* POST /api/events/:id/register up to `await storage.getEvent`
AttendBegin(p, c, eventId) ==
    /\ Free(p)
    /\ isAuthenticated(c)
    /\ Suspend(p, "registerForEvent:getEvent",
               [Arrive(p, "registerForEvent", c, eventId) EXCEPT
                    !.found = getEvent(eventsMap, eventId)])
    /\ UNCHANGED <<storeVars, sessions, now, res>>

\* ... up to `await storage.getEventParticipants`
AttendLookup(p) ==
    /\ pc[p] = "registerForEvent:getEvent"
    /\ IF frame[p].found = <<>>
       THEN Finish(p, 404)
       ELSE Suspend(p, "registerForEvent:getEventParticipants",
                    [frame[p] EXCEPT !.found =
                        getEventParticipants(eventParticipantsMap, frame[p].target)])
    /\ UNCHANGED <<storeVars, sessions, now, res>>

\* ... through storage.addEventParticipant to the response
AttendInsert(p) ==
    LET Mine(q) == q.userId = frame[p].user
        id == eventParticipantIdCounter
    IN
    /\ pc[p] = "registerForEvent:getEventParticipants"
    /\ UNCHANGED <<userVars, orgVars, eventVars, savedVars, sessions, now, res>>
    /\ IF Some(frame[p].found, Mine)
       THEN Finish(p, 400) /\ UNCHANGED participantVars
       ELSE /\ eventParticipantIdCounter <= MaxParticipants
            /\ eventParticipantsMap' =
                   addEventParticipant(eventParticipantsMap, id,
                       [eventId |-> frame[p].target, userId |-> frame[p].user,
                        status |-> "registered"])
            /\ eventParticipantIdCounter' = eventParticipantIdCounter + 1
            /\ Finish(p, 201)

\* POST /api/register up to `await storage.getUserByUsername`
JoinBegin(p, c, username, isOrganizer) ==
    /\ Free(p)
    /\ Suspend(p, "register:getUserByUsername",
               [NoFrame EXCEPT !.op = "register", !.client = c, !.name = username,
                               !.organizer = isOrganizer,
                               !.found = getUserByUsername(username)])
    /\ UNCHANGED <<storeVars, sessions, now, res>>

\* ... into hashPassword, up to its `await scryptAsync`
JoinHash(p) ==
    /\ pc[p] = "register:getUserByUsername"
    /\ IF frame[p].found # <<>>
       THEN Finish(p, 400)
       ELSE Suspend(p, "hashPassword:scrypt", [frame[p] EXCEPT !.found = <<>>])
    /\ UNCHANGED <<storeVars, sessions, now, res>>

\* ... through storage.createUser, up to its await
JoinCreate(p, salt) ==
    LET id == userIdCounter
    IN
    /\ pc[p] = "hashPassword:scrypt"
    /\ userIdCounter <= MaxUsers
    /\ usersMap' = createUser(id, [username |-> frame[p].name,
                                   isOrganizer |-> frame[p].organizer,
                                   password |-> hashPassword("pw1", salt)])
    /\ userIdCounter' = userIdCounter + 1
    /\ Suspend(p, "register:createUser", [frame[p] EXCEPT !.user = id])
    /\ UNCHANGED <<orgVars, eventVars, participantVars, savedVars, sessions, now, res>>

\* ... storage.createOrganization for an organizer, req.login, the response
JoinFinish(p) ==
    /\ pc[p] = "register:createUser"
    /\ IF frame[p].organizer
       THEN /\ organizationsMap' =
                   createOrganization(orgIdCounter, [name |-> "org", userId |-> frame[p].user])
            /\ orgIdCounter' = orgIdCounter + 1
       ELSE UNCHANGED orgVars
    /\ sessions' = [sessions EXCEPT ![frame[p].client] = frame[p].user]
    /\ Finish(p, 201)
    /\ UNCHANGED <<userVars, eventVars, participantVars, savedVars, now, res>>

\* POST /api/login: the LocalStrategy callback up to
\* `await storage.getUserByUsername`
LoginBegin(p, c, username, password) ==
    /\ Free(p)
    /\ Suspend(p, "login:getUserByUsername",
               [NoFrame EXCEPT !.op = "login", !.client = c, !.name = username,
                               !.password = password,
                               !.found = getUserByUsername(username)])
    /\ UNCHANGED <<storeVars, sessions, now, res>>

\* ... `!user ||` answers at once; otherwise into comparePasswords, up to
\* its `await scryptAsync`
LoginVerify(p) ==
    /\ pc[p] = "login:getUserByUsername"
    /\ IF frame[p].found = <<>>
       THEN Finish(p, 401)
       ELSE IF frame[p].password = "" \/ storedHashed(frame[p].found[1].password) = <<>>
                 \/ storedSalt(frame[p].found[1].password) = <<>>
       THEN Finish(p, 401)
       ELSE Suspend(p, "comparePasswords:scrypt", frame[p])
    /\ UNCHANGED <<storeVars, sessions, now, res>>

\* ... timingSafeEqual, done, req.login and the response
LoginFinish(p) ==
    LET user == frame[p].found[1]
    IN
    /\ pc[p] = "comparePasswords:scrypt"
    /\ IF comparePasswordsThrows(frame[p].password, user.password)
       THEN Finish(p, 500) /\ UNCHANGED sessions
       ELSE IF ~comparePasswords(frame[p].password, user.password)
       THEN Finish(p, 401) /\ UNCHANGED sessions
       ELSE /\ sessions' = [sessions EXCEPT ![frame[p].client] = user.id]
            /\ pc' = [pc EXCEPT ![p] = "done"]
            /\ frame' = [frame EXCEPT ![p] = [frame[p] EXCEPT !.status = 200,
                                                             !.user = user.id,
                                                             !.found = <<>>]]
    /\ UNCHANGED <<storeVars, now, res>>

(* --------------------------- specifications --------------------------- *)

OrgIds == 1..(MaxUsers + 1)
EventIds == 1..(MaxEvents + 1)

\* the whole account surface: any registration payload, login and logout
Accounts ==
    \/ \E c \in Browser, username \in Usernames \cup {""}, password \in Passwords,
          salt \in Salts, isOrganizer \in BOOLEAN, hasOrganization \in BOOLEAN :
            Register(c, username, password, salt, isOrganizer, hasOrganization)
    \/ \E c \in Browser, username \in Usernames, password \in Passwords \cup WrongPasswords :
            Login(c, username, password)
    \/ \E c \in Browser : Logout(c)

SpecAccounts == Init /\ [][Accounts]_vars

\* the accounts the other specifications work with
SignUp ==
    \E c \in Browser, username \in PlainUsernames, isOrganizer \in BOOLEAN :
        Register(c, username, "pw1", Salt1, isOrganizer, TRUE)

SignIn ==
    \/ \E c \in Browser, username \in PlainUsernames : Login(c, username, "pw1")
    \/ \E c \in Browser : Logout(c)

Follow ==
    \/ \E c \in Browser, organizationId \in OrgIds : Save(c, organizationId)
    \/ \E c \in Browser, organizationId \in OrgIds : Unsave(c, organizationId)

EditOrganization ==
    \E c \in Browser, id \in OrgIds, body \in OrganizationBodies :
        PutOrganization(c, id, body)

\* requests handled one at a time: accounts, follows and organization edits
Next == SignUp \/ SignIn \/ Follow \/ EditOrganization

Spec == Init /\ [][Next]_vars

\* the same without PUT /api/organizations/:id
NextFollow == SignUp \/ SignIn \/ Follow

SpecFollow == Init /\ [][NextFollow]_vars

\* requests handled one at a time: one organizer, their events, and time
NextUpcoming ==
    \/ \E c \in Browser : Register(c, "ann", "pw1", Salt1, TRUE, TRUE)
    \/ \E c \in Browser, date \in RawDates, complete \in BOOLEAN :
            CreateEvent(c, date, complete)
    \/ \E c \in Browser, id \in EventIds, body \in {[date |-> 1], [date |-> -1]} :
            PutEvent(c, id, body)
    \/ \E c \in Browser : GetEvents(c)
    \/ Tick

SpecUpcoming == Init /\ [][NextUpcoming]_vars

\* requests handled one at a time: accounts, events and registrations for them
NextAttend ==
    \/ SignUp
    \/ SignIn
    \/ \E c \in Browser : eventIdCounter <= MaxAttended /\ CreateEvent(c, 1, TRUE)
    \/ \E c \in Browser, id \in EventIds : PutEvent(c, id, [id |-> 2])
    \/ \E c \in Browser, eventId \in EventIds : RegisterForEvent(c, eventId)

SpecAttend == Init /\ [][NextAttend]_vars

\* requests handled one at a time: one organizer signing in and out, and
\* every route that asks for a session, aimed at the first organization or event
NextGuarded ==
    \/ \E c \in Browser : Register(c, "ann", "pw1", Salt1, TRUE, TRUE)
    \/ SignIn
    \/ \E c \in Browser, body \in OrganizationBodies : PutOrganization(c, 1, body)
    \/ \E c \in Browser : eventIdCounter <= MaxAttended /\ CreateEvent(c, 1, TRUE)
    \/ \E c \in Browser : PutEvent(c, 1, [date |-> 1])
    \/ \E c \in Browser : RegisterForEvent(c, 1)
    \/ \E c \in Browser : GetUserEvents(c)
    \/ \E c \in Browser : GetSaved(c)
    \/ \E c \in Browser : Save(c, 1)
    \/ \E c \in Browser : Unsave(c, 1)
    \/ \E c \in Browser, body \in ProfileBodies : PutProfile(c, body)
    \/ \E c \in Browser : GetUser(c)

SpecGuarded == Init /\ [][NextGuarded]_vars

\* requests handled one at a time: accounts with and without an
\* organization, event creation, and edits of organizations and events
NextEdit ==
    \/ \E c \in Browser, username \in PlainUsernames, isOrganizer \in BOOLEAN,
          hasOrganization \in BOOLEAN :
            Register(c, username, "pw1", Salt1, isOrganizer, hasOrganization)
    \/ SignIn
    \/ \E c \in Browser, date \in {0, 1}, complete \in BOOLEAN :
            eventIdCounter <= MaxAttended /\ CreateEvent(c, date, complete)
    \/ \E c \in Browser, id \in OrgIds,
          body \in {[followers |-> 0]} \cup OrganizationOwnerBodies :
            PutOrganization(c, id, body)
    \/ \E c \in Browser, id \in 1..(MaxAttended + 1),
          body \in {[date |-> 1]} \cup EventOwnerBodies :
            PutEvent(c, id, body)

SpecEdit == Init /\ [][NextEdit]_vars

\* the two password functions applied to every input of the sets above
NextPasswords ==
    \/ \E password \in SuppliedPasswords, salt \in Salts, supplied \in SuppliedPasswords :
            HashAndCompare(password, salt, supplied)
    \/ \E supplied \in SuppliedPasswords, stored \in MalformedStored :
            CompareStored(supplied, stored)

SpecPasswords == Init /\ [][NextPasswords]_vars

\* one registered user; logins from two browsers in flight together
NextLoginSteps ==
    \/ \E c \in Browser :
            (\A p \in Procs : Free(p)) /\ Register(c, "ann", "pw1", Salt1, FALSE, FALSE)
    \/ \E username \in PlainUsernames, password \in Passwords \cup WrongPasswords :
            \/ LoginBegin("p1", "c1", username, password)
            \/ LoginBegin("p2", "c2", username, password)
    \/ \E p \in Procs : LoginVerify(p) \/ LoginFinish(p)

SpecLoginSteps == Init /\ [][NextLoginSteps]_vars

\* one organizer and one event, and update calls made on the store with ids
\* that are present and ids that are absent
NextUpdate ==
    \/ \E c \in Browser : Register(c, "ann", "pw1", Salt1, TRUE, TRUE)
    \/ \E c \in Browser : eventIdCounter <= MaxAttended /\ CreateEvent(c, 1, TRUE)
    \/ \E id \in 1..(MaxAttended + 1), userData \in UserPartials :
            UpdateUserCall(id, userData)
    \/ \E id \in 1..(MaxAttended + 1), orgData \in OrganizationBodies :
            UpdateOrganizationCall(id, orgData)
    \/ \E id \in 1..(MaxAttended + 1), eventData \in EventBodies :
            UpdateEventCall(id, eventData)

SpecUpdate == Init /\ [][NextUpdate]_vars

\* requests handled one at a time, creating records of all five kinds:
\* accounts with their organizations, events, and the rows that join a user
\* to an organization or an event, asked for with ids that exist and ids that
\* do not
NextRows ==
    \/ SignUp
    \/ SignIn
    \/ \E c \in Browser : eventIdCounter <= MaxAttended /\ CreateEvent(c, 1, TRUE)
    \/ \E c \in Browser, eventId \in {1, MaxAttended + 1} : RegisterForEvent(c, eventId)
    \/ \E c \in Browser, organizationId \in {1, MaxUsers + 1} : Save(c, organizationId)
    \/ \E c \in Browser, organizationId \in {1, MaxUsers + 1} : Unsave(c, organizationId)

SpecRows == Init /\ [][NextRows]_vars

\* requests handled one at a time: accounts, and events created through
\* either copy of the POST /api/events handler
NextCreate ==
    \/ SignUp
    \/ SignIn
    \/ \E c \in Browser : eventIdCounter <= MaxAttended /\ CreateEvent(c, 1, TRUE)
    \/ \E c \in Browser, body \in OlderEventBodies :
            eventIdCounter <= MaxAttended /\ CreateEventOlder(c, body)

SpecCreate == Init /\ [][NextCreate]_vars

\* requests handled one at a time: accounts, follows, and organization
\* edits that carry a follower count
NextCount ==
    \/ SignUp
    \/ SignIn
    \/ Follow
    \/ \E c \in Browser, id \in OrgIds, body \in FollowerBodies : PutOrganization(c, id, body)

SpecCount == Init /\ [][NextCount]_vars

\* requests handled one at a time: accounts, profile edits, and follows of
\* the first organization
NextProfile ==
    \/ SignUp
    \/ SignIn
    \/ \E c \in Browser, body \in ProfileBodies : PutProfile(c, body)
    \/ \E c \in Browser : GetUser(c)
    \/ \E c \in Browser : Save(c, 1)
    \/ \E c \in Browser : Unsave(c, 1)

SpecProfile == Init /\ [][NextProfile]_vars

\* two browsers, each signed up as its own user, whose save and unsave
\* requests are in flight together
NextFollowRace ==
    \/ \E c \in Clients, username \in PlainUsernames :
            (\A p \in Procs : Free(p)) /\ Register(c, username, "pw1", Salt1, TRUE, TRUE)
    \/ \E organizationId \in OrgIds :
            \/ SaveBegin("p1", "c1", organizationId)
            \/ SaveBegin("p2", "c2", organizationId)
            \/ UnsaveBegin("p1", "c1", organizationId)
            \/ UnsaveBegin("p2", "c2", organizationId)
    \/ \E p \in Procs : SaveLookup(p) \/ SaveInsert(p) \/ SaveCount(p) \/ UnsaveCount(p)

SpecFollowRace == Init /\ [][NextFollowRace]_vars

\* one browser whose registrations for an event are in flight together
NextAttendRace ==
    \/ \E c \in Browser : Register(c, "ann", "pw1", Salt1, TRUE, TRUE)
    \/ \E c \in Browser : eventIdCounter <= MaxAttended /\ CreateEvent(c, 1, TRUE)
    \/ \E p \in Procs, c \in Browser, eventId \in EventIds : AttendBegin(p, c, eventId)
    \/ \E p \in Procs : AttendLookup(p) \/ AttendInsert(p)

SpecAttendRace == Init /\ [][NextAttendRace]_vars

\* two browsers whose registrations are in flight together
NextJoinRace ==
    \/ \E username \in PlainUsernames, isOrganizer \in BOOLEAN :
            \/ JoinBegin("p1", "c1", username, isOrganizer)
            \/ JoinBegin("p2", "c2", username, isOrganizer)
    \/ \E p \in Procs : JoinHash(p) \/ JoinFinish(p)
    \/ \E p \in Procs, salt \in Salts : JoinCreate(p, salt)

SpecJoinRace == Init /\ [][NextJoinRace]_vars

(* ============================== claims ================================ *)

\* the join rows that reference an organization by its id
FollowerRows(org) ==
    {r \in DOMAIN savedOrganizationsMap :
        savedOrganizationsMap[r].organizationId = org.id}

\* C1: after any sequence of save and unsave requests handled one after
\* another, every organization's followers equals the number of
\* SavedOrganization rows whose organizationId is its id.
C1_FollowersMatchRows ==
    \A k \in DOMAIN organizationsMap :
        organizationsMap[k].followers = Cardinality(FollowerRows(organizationsMap[k]))

\* a save, then a second save, then an unsave that removed one of the two rows
C1_Witness ==
    /\ res.op = "unsave" /\ res.status = 204
    /\ savedOrgIdCounter = 3
    /\ Cardinality(DOMAIN savedOrganizationsMap) = 1
    /\ \E k \in DOMAIN organizationsMap : organizationsMap[k].followers = 1

\* C2: in every reachable state, PUT /api/organizations/:id with any partial
\* body included, each organization's followers equals the number of
\* SavedOrganization rows that reference it.
C2_FollowersAlwaysMatchRows ==
    \A i \in 1..Len(Values(organizationsMap)) :
        LET org == Values(organizationsMap)[i]
        IN  Cardinality(FollowerRows(org)) = org.followers

\* C3: when save and unsave requests of different users interleave at their
\* awaits, no increment or decrement is lost: once every request has
\* completed, followers equals the number of rows of the organization.
C3_NoLostFollowerUpdate ==
    (\A p \in Procs : Free(p)) =>
        \A k \in DOMAIN organizationsMap :
            Cardinality(FollowerRows(organizationsMap[k])) = organizationsMap[k].followers

\* the user has a SavedOrganization row for the organization
HasSaved(userId, organizationId) ==
    \E r \in DOMAIN savedOrganizationsMap :
        /\ savedOrganizationsMap[r].userId = userId
        /\ savedOrganizationsMap[r].organizationId = organizationId

\* C4: a POST /api/organizations/:id/save by a user who has already saved
\* that organization is answered 400, adds no row and leaves followers as
\* they were.
C4_ResaveRejected ==
    [][(res'.op = "save" /\ res'.user # 0 /\ HasSaved(res'.user, res'.target))
        => /\ res'.status = 400
           /\ UNCHANGED <<savedOrganizationsMap, organizationsMap>>]_vars

\* C5: an unsave of an organization the user has not saved (an unknown id
\* included) is answered 204 and changes no row and no followers value, and
\* unsave is idempotent: the second of two unsaves in a row, by the same user
\* for the same organization, changes nothing.
C5_UnsaveIdempotent ==
    /\ [][(res'.op = "unsave" /\ res'.user # 0 /\ ~HasSaved(res'.user, res'.target))
           => /\ res'.status = 204
              /\ UNCHANGED <<savedOrganizationsMap, organizationsMap>>]_vars
    /\ [][(/\ res.op = "unsave" /\ res.status = 204
           /\ res'.op = "unsave" /\ res'.status = 204
           /\ res'.user = res.user /\ res'.target = res.target)
           => UNCHANGED <<savedOrganizationsMap, organizationsMap>>]_vars

\* the EventParticipant rows of a user for an event
ParticipantRows(participants, eventId, userId) ==
    {r \in DOMAIN participants :
        participants[r].eventId = eventId /\ participants[r].userId = userId}

\* C6: with requests handled one after another, a user's registration for an
\* existing event is answered 201 with a participant of status "registered"
\* when the user has no row for the event, and 400 when the user has one; in
\* both cases the user then has exactly one row for the event.
C6_SecondRegistrationRejected ==
    [][(res'.op = "registerForEvent" /\ res'.user # 0 /\ res'.target \in DOMAIN eventsMap)
        => /\ IF ParticipantRows(eventParticipantsMap, res'.target, res'.user) = {}
              THEN /\ res'.status = 201
                   /\ res'.body[1].status = "registered"
                   /\ res'.body[1].userId = res'.user
                   /\ res'.body[1].eventId = res'.target
              ELSE /\ res'.status = 400
                   /\ UNCHANGED participantVars
           /\ Cardinality(ParticipantRows(eventParticipantsMap', res'.target, res'.user)) = 1
       ]_vars

\* a registration was rejected as a duplicate
C6_Witness ==
    /\ res.op = "registerForEvent" /\ res.status = 400
    /\ Cardinality(ParticipantRows(eventParticipantsMap, res.target, res.user)) = 1

\* C7: there is at most one EventParticipant row per (eventId, userId), also
\* while registrations of one user for one event are in flight together.
C7_OneRowPerPair ==
    \A r1, r2 \in DOMAIN eventParticipantsMap :
        (/\ eventParticipantsMap[r1].eventId = eventParticipantsMap[r2].eventId
         /\ eventParticipantsMap[r1].userId = eventParticipantsMap[r2].userId)
            => r1 = r2

\* some stored user has this username, ignoring case
UsernameTaken(username) ==
    \E k \in DOMAIN usersMap : toLowerCase(usersMap[k].username) = toLowerCase(username)

\* C8: a registration whose username equals a stored one ignoring case is
\* answered 400 and creates no User and no Organization row; so, with
\* registrations handled one after another, no two User rows have usernames
\* that are equal ignoring case.
C8_UsernamesUniqueIgnoringCase ==
    /\ [](\A j, k \in DOMAIN usersMap :
            toLowerCase(usersMap[j].username) = toLowerCase(usersMap[k].username) => j = k)
    /\ [][(res'.op = "register" /\ res'.name # "" /\ UsernameTaken(res'.name))
           => /\ res'.status = 400
              /\ UNCHANGED <<userVars, orgVars>>]_vars

\* "Ann" was refused because "ann" is registered
C8_Witness ==
    /\ res.op = "register" /\ res.status = 400 /\ res.name = "Ann"
    /\ \E k \in DOMAIN usersMap : usersMap[k].username = "ann"

\* C9: the existence check of a registration is not repeated when its user
\* is created: two registrations for one username that were in flight
\* together and were both answered 201 have each stored a User row of their
\* own, so two User rows hold the same username.
C9_BothRegistrationsStored ==
    \A p, q \in Procs :
        (/\ p # q
         /\ pc[p] = "done" /\ frame[p].op = "register" /\ frame[p].status = 201
         /\ pc[q] = "done" /\ frame[q].op = "register" /\ frame[q].status = 201
         /\ frame[p].name = frame[q].name)
            => /\ frame[p].user # frame[q].user
               /\ frame[p].user \in DOMAIN usersMap
               /\ frame[q].user \in DOMAIN usersMap
               /\ usersMap[frame[p].user].username = frame[p].name
               /\ usersMap[frame[q].user].username = frame[q].name

\* two User rows with the same username, both registrations answered 201
C9_Witness ==
    /\ \E j, k \in DOMAIN usersMap :
            j # k /\ usersMap[j].username = usersMap[k].username
    /\ \A p \in Procs : pc[p] = "done" /\ frame[p].status = 201

\* C10: getUpcomingEvents returns exactly the stored events whose date is
\* later than the time of the call, in ascending order of date: none whose
\* date is the time of the call or earlier, and every later one, once.
C10_UpcomingExact ==
    res.op = "getEvents" =>
        LET Later(event) == ~isInvalidDate(event.date) /\ event.date > now
            later == {k \in DOMAIN eventsMap : Later(eventsMap[k])}
        IN  /\ Len(res.body) = Cardinality(later)
            /\ \A i \in 1..Len(res.body) :
                    \E k \in later : res.body[i] = eventsMap[k]
            /\ \A k \in later : \E i \in 1..Len(res.body) : res.body[i] = eventsMap[k]
            /\ \A i, j \in 1..Len(res.body) :
                    i < j => res.body[i].date <= res.body[j].date

\* two later events returned in the reverse of their stored order, and an
\* event dated exactly at the time of the call left out
C10_Witness ==
    /\ res.op = "getEvents"
    /\ Len(res.body) = 2
    /\ res.body[1].id > res.body[2].id
    /\ res.body[1].date < res.body[2].date
    /\ \E k \in DOMAIN eventsMap : eventsMap[k].date = now

\* the routes that ask for a session
GuardedOps == {"putOrganization", "createEvent", "putEvent", "registerForEvent",
               "getUserEvents", "getSaved", "save", "unsave", "putProfile", "getUser"}

\* C11: a request to a route that changes the store or is scoped to the user,
\* sent by a browser without a session, is answered 401 and leaves the five
\* collections (and their id counters) as they were.
C11_NoSessionIs401 ==
    [][(res'.op \in GuardedOps /\ sessions[res'.client] = 0)
        => /\ res'.status = 401
           /\ UNCHANGED storeVars]_vars

\* a signed-out browser was refused after users, an organization, an event
\* and a saved row had been stored
C11_Witness ==
    /\ res.op \in GuardedOps /\ res.status = 401
    /\ sessions[res.client] = 0
    /\ DOMAIN eventsMap # {} /\ DOMAIN savedOrganizationsMap # {}

\* what the two update routes say of a request, from the state it arrives in
EditStatus(c, record, ownerField) ==
    IF sessions[c] = 0 THEN 401
    ELSE IF record = <<>> THEN 404
    ELSE IF record[1][ownerField] # sessions[c] THEN 403
    ELSE 200

\* C12: PUT /api/organizations/:id and PUT /api/events/:id answer 401
\* without a session, else 404 for an absent id, else 403 when the
\* principal is not the record's userId / organizerId; in these three cases
\* every record stays as it was, and a record changes only on its owner's
\* request.
C12_EditsNeedOwner ==
    [][/\ res'.op = "putOrganization" =>
            /\ res'.status = EditStatus(res'.client,
                                 getOrganization(organizationsMap, res'.target), "userId")
            /\ res'.status \in {401, 404, 403} => UNCHANGED storeVars
            /\ res'.status = 200 =>
                    /\ organizationsMap[res'.target].userId = sessions[res'.client]
                    /\ \A k \in DOMAIN organizationsMap \ {res'.target} :
                            organizationsMap'[k] = organizationsMap[k]
       /\ res'.op = "putEvent" =>
            /\ res'.status = EditStatus(res'.client,
                                 getEvent(eventsMap, res'.target), "organizerId")
            /\ res'.status \in {401, 404, 403} => UNCHANGED storeVars
            /\ res'.status = 200 =>
                    /\ eventsMap[res'.target].organizerId = sessions[res'.client]
                    /\ \A k \in DOMAIN eventsMap \ {res'.target} :
                            eventsMap'[k] = eventsMap[k]
       /\ (res'.op \in {"putOrganization", "putEvent"} /\ storeVars' # storeVars)
            => res'.status = 200
      ]_vars

\* a signed-in user who is neither absent nor the organizer was refused
C12_Witness ==
    /\ res.op = "putEvent" /\ res.status = 403
    /\ res.target \in DOMAIN eventsMap
    /\ eventsMap[res.target].organizerId # res.user

\* the principal of a request, as stored when the request arrived
Principal(c) == usersMap[sessions[c]]
HasOrganization(userId) ==
    \E k \in DOMAIN organizationsMap : organizationsMap[k].userId = userId

ValidEventRequest(request) ==
    request.date # 0 /\ request.complete /\ ~isInvalidDate(request.date)

C14_OrganizerExists ==
    \A k \in DOMAIN eventsMap :
        /\ eventsMap[k].organizerId \in DOMAIN usersMap
        /\ usersMap[eventsMap[k].organizerId].isOrganizer

\* C15: the userId an Organization was created with never changes, whatever
\* requests are made, PUT /api/organizations/:id with any partial body from
\* the owner included.
C15_OwnerImmutable ==
    [][\A k \in DOMAIN organizationsMap :
            organizationsMap'[k].userId = organizationsMap[k].userId]_vars

\* the routes whose success payload is the session principal
PrincipalOps == {"register", "login", "getUser", "putProfile"}

\* C16: the success payload of POST /api/register, POST /api/login,
\* GET /api/user and PUT /api/user/profile is the stored principal without
\* its password field, after any sequence of requests.
C16_NoPasswordInResponse ==
    (res.op \in PrincipalOps /\ res.status \in {200, 201}) =>
        /\ Len(res.body) = 1
        /\ "password" \notin DOMAIN res.body[1]
        /\ res.body[1].id = res.user
        /\ \A f \in DOMAIN res.body[1] : res.body[1][f] = usersMap[res.user][f]

\* a profile update answered with the principal, whose stored row has a hash
C16_Witness ==
    /\ res.op = "putProfile" /\ res.status = 200
    /\ "password" \in DOMAIN usersMap[res.user]
    /\ usersMap[res.user].password = hashPassword("pw1", Salt1)
    /\ res.body[1].name = "Ann B."

\* C17: for every password p that is not empty, every salt, and every
\* supplied string w, comparePasswords(w, hashPassword(p)) returns true when
\* w is p and false when w differs from p.
C17_PasswordRoundTrip ==
    res.op = "hashAndCompare" =>
        /\ ~res.body[1].throws
        /\ res.body[1].value = (res.name = res.request.password)

\* a password other than the hashed one was supplied and refused after the
\* key derivation; the stored string has the key, the dot and the salt
C17_Witness ==
    /\ res.op = "hashAndCompare"
    /\ res.name # "" /\ res.name # res.request.password
    /\ ~res.body[1].value
    /\ Len(res.request.stored) = 2 * KeyLen + 1 + 2 * SaltLen
    /\ fromHex(storedHashed(res.request.stored)) = scrypt(res.request.password, res.request.salt)

\* the malformed inputs the spec lists: a missing credential, no dot, an
\* empty hash or salt part, a hash part that is no key of the fixed length
MalformedCall(supplied, stored) ==
    \/ supplied = "" \/ stored = <<>>
    \/ \A i \in 1..Len(stored) : stored[i] # "."
    \/ storedHashed(stored) = <<>> \/ storedSalt(stored) = <<>>
    \/ Len(fromHex(storedHashed(stored))) # KeyLen

\* C18: comparePasswords returns false and does not throw for every
\* malformed stored value and for missing credentials.
C18_MalformedIsFalse ==
    (res.op = "comparePasswords" /\ MalformedCall(res.name, res.request.stored)) =>
        ~res.body[1].throws /\ ~res.body[1].value

\* the password is the one the stored hash was written from
RightPassword(password, stored) ==
    password # "" /\ stored = hashPassword(password, storedSalt(stored))

\* C19: a POST /api/login that fails is answered alike for an unknown
\* username and for a known username with a wrong password: 401 with the
\* same message, no session established, nothing stored; a login with the
\* right password is answered 200 and the session is that user's.
C19_FailedLoginsAlike ==
    [][res'.op = "login" =>
        LET user == getUserByUsername(res'.name)
        IN  IF user # <<>> /\ RightPassword(res'.request.password, user[1].password)
            THEN /\ res'.status = 200
                 /\ sessions'[res'.client] = user[1].id
                 /\ UNCHANGED storeVars
            ELSE /\ res'.status = 401
                 /\ res'.body = <<"Invalid credentials">>
                 /\ res'.user = 0
                 /\ UNCHANGED <<storeVars, sessions>>
      ]_vars

\* a known username with a wrong password was refused
C19_Witness ==
    /\ res.op = "login" /\ res.status = 401
    /\ getUserByUsername(res.name) # <<>>
    /\ res.request.password = "bad"

\* C20: every login performs the password comparison (key derivation and
\* compare) once, for an unknown username as for a wrong password: a login
\* is answered only from the await of the comparison.
C20_AlwaysCompares ==
    [][\A p \in Procs :
            (frame'[p].op = "login" /\ pc'[p] = "done" /\ pc[p] # "done")
                => pc[p] = "comparePasswords:scrypt"]_vars

\* an update of collection `before` into `after`, called with id and partial
\* and returning `returned`, neither creates nor touches anything but the
\* fields of the partial
MergedOnly(before, after, id, partial, returned) ==
    /\ DOMAIN after = DOMAIN before
    /\ \A k \in DOMAIN before \ {id} : after[k] = before[k]
    /\ IF id \notin DOMAIN before
       THEN returned = <<>> /\ after = before
       ELSE /\ returned = <<after[id]>>
            /\ DOMAIN after[id] = DOMAIN before[id] \cup DOMAIN partial
            /\ \A f \in DOMAIN partial : after[id][f] = partial[f]
            /\ \A f \in DOMAIN before[id] \ DOMAIN partial : after[id][f] = before[id][f]

\* C21: updateUser, updateOrganization and updateEvent never create a
\* record: for an absent id they return undefined and leave the collection
\* and its counter alone; for a present id they store the record with the
\* fields of the partial overwritten and every other field as it was.
C21_UpdateNeverCreates ==
    [][/\ res'.op = "updateUser" =>
            /\ MergedOnly(usersMap, usersMap', res'.target, res'.request, res'.body)
            /\ UNCHANGED <<userIdCounter, orgVars, eventVars, participantVars, savedVars>>
       /\ res'.op = "updateOrganization" =>
            /\ MergedOnly(organizationsMap, organizationsMap', res'.target,
                          res'.request, res'.body)
            /\ UNCHANGED <<userVars, orgIdCounter, eventVars, participantVars, savedVars>>
       /\ res'.op = "updateEvent" =>
            /\ MergedOnly(eventsMap, eventsMap', res'.target, res'.request, res'.body)
            /\ UNCHANGED <<userVars, orgVars, eventIdCounter, participantVars, savedVars>>
      ]_vars

\* updateEvent was called with an id that is absent while an event is stored
C21_Witness ==
    /\ res.op = "updateEvent" /\ res.body = <<>>
    /\ res.target \notin DOMAIN eventsMap
    /\ DOMAIN eventsMap # {}

\* one step of a collection and its counter: ids are handed out from the
\* counter, which only grows, and a new record displaces nothing
Fresh(before, after, counter, counterAfter) ==
    /\ \A k \in DOMAIN before : k \in 1..(counter - 1)
    /\ counterAfter \in {counter, counter + 1}
    /\ counterAfter = counter => DOMAIN after \subseteq DOMAIN before
    /\ counterAfter = counter + 1 =>
            /\ counter \notin DOMAIN before
            /\ DOMAIN after = DOMAIN before \cup {counter}
            /\ after[counter].id = counter
            /\ \A k \in DOMAIN before : after[k] = before[k]

\* C22: for users, organizations, events, participants and saved rows alike,
\* a create stores its record under the next id of the counter, 1, 2, 3, ...
\* in call order: an id above every id given out before, never given out
\* twice (also after an unsave deleted a row), never that of a stored record.
C22_IdsFresh ==
    [][/\ Fresh(usersMap, usersMap', userIdCounter, userIdCounter')
       /\ Fresh(organizationsMap, organizationsMap', orgIdCounter, orgIdCounter')
       /\ Fresh(eventsMap, eventsMap', eventIdCounter, eventIdCounter')
       /\ Fresh(eventParticipantsMap, eventParticipantsMap',
                eventParticipantIdCounter, eventParticipantIdCounter')
       /\ Fresh(savedOrganizationsMap, savedOrganizationsMap',
                savedOrgIdCounter, savedOrgIdCounter')
      ]_vars

\* a saved row was stored under id 2 after the row with id 1 was deleted,
\* and records of the other four kinds exist
C22_Witness ==
    /\ DOMAIN savedOrganizationsMap = {2}
    /\ DOMAIN usersMap = {1, 2} /\ DOMAIN organizationsMap # {}
    /\ DOMAIN eventsMap # {} /\ DOMAIN eventParticipantsMap # {}

\* C26: the join rows never dangle: saving an organization id that is not
\* stored, or registering for an event id that is not stored, answers 404
\* and inserts no row; every saved row names a stored user and a stored
\* organization, every participant row a stored user and a stored event.
C26_NoDanglingRows ==
    [][/\ ( /\ res'.op = "save" /\ res'.user # 0
            /\ res'.target \notin DOMAIN organizationsMap )
          => res'.status = 404 /\ UNCHANGED storeVars
       /\ ( /\ res'.op = "registerForEvent" /\ res'.user # 0
            /\ res'.target \notin DOMAIN eventsMap )
          => res'.status = 404 /\ UNCHANGED storeVars
       /\ \A k \in DOMAIN savedOrganizationsMap' :
            /\ savedOrganizationsMap'[k].userId \in DOMAIN usersMap'
            /\ savedOrganizationsMap'[k].organizationId \in DOMAIN organizationsMap'
       /\ \A k \in DOMAIN eventParticipantsMap' :
            /\ eventParticipantsMap'[k].userId \in DOMAIN usersMap'
            /\ eventParticipantsMap'[k].eventId \in DOMAIN eventsMap'
      ]_vars

\* a signed-in user who has a saved row and a participant row was answered
\* 404 for an event id that is not stored
C26_Witness ==
    /\ res.op = "registerForEvent" /\ res.status = 404
    /\ res.target \notin DOMAIN eventsMap
    /\ DOMAIN savedOrganizationsMap # {} /\ DOMAIN eventParticipantsMap # {}

\* the organizations a user owns
OwnedBy(orgs, userId) == {k \in DOMAIN orgs : orgs[k].userId = userId}

\* C23: a registration answered 201 creates exactly one user, with points 0,
\* and for isOrganizer = true exactly one organization, owned by the new
\* user and with followers 0, and signs the new user in; so every user
\* with isOrganizer = true owns exactly one organization.
C23_OrganizerGetsOrganization ==
    [][(res'.op = "register" /\ res'.status = 201) =>
          LET id == res'.user IN
          /\ DOMAIN usersMap' = DOMAIN usersMap \cup {id} /\ id \notin DOMAIN usersMap
          /\ usersMap'[id].points = 0
          /\ sessions'[res'.client] = id
          /\ usersMap'[id].isOrganizer =>
                /\ Cardinality(DOMAIN organizationsMap') =
                       Cardinality(DOMAIN organizationsMap) + 1
                /\ \A k \in DOMAIN organizationsMap' \ DOMAIN organizationsMap :
                       /\ organizationsMap'[k].userId = id
                       /\ organizationsMap'[k].followers = 0
          /\ \A u \in DOMAIN usersMap' :
                usersMap'[u].isOrganizer =>
                    Cardinality(OwnedBy(organizationsMap', u)) = 1
      ]_vars

\* C24: every event created through POST /api/events has the principal as
\* its organizerId and the id of the principal's organization as its
\* organizationId, whatever ids the request body carries, and this through
\* either of the two handlers.
C24_EventOwnedByPrincipal ==
    [][(res'.op \in {"createEvent", "createEventOlder"} /\ res'.status = 201) =>
          LET event == eventsMap'[eventIdCounter] IN
          /\ event.organizerId = sessions[res'.client]
          /\ "organizationId" \in DOMAIN event
          /\ \E k \in OwnedBy(organizationsMap, sessions[res'.client]) :
                event.organizationId = organizationsMap[k].id
      ]_vars

\* C25: a save of a stored organization raises its followers by exactly 1,
\* an unsave that removes a row lowers it by exactly 1 but not below 0, and
\* followers is an integer >= 0 in every reachable state.
C25_FollowersCounted ==
    [][/\ (res'.op = "save" /\ res'.status = 201) =>
            organizationsMap'[res'.target].followers =
                organizationsMap[res'.target].followers + 1
       /\ ( /\ res'.op = "unsave"
            /\ DOMAIN savedOrganizationsMap' # DOMAIN savedOrganizationsMap
            /\ res'.target \in DOMAIN organizationsMap ) =>
            organizationsMap'[res'.target].followers =
                IF organizationsMap[res'.target].followers >= 1
                THEN organizationsMap[res'.target].followers - 1
                ELSE 0
       /\ \A k \in DOMAIN organizationsMap' : organizationsMap'[k].followers \in Nat
      ]_vars

\* every record of the collection carries its key in its id field
KeyedById(m) == \A k \in DOMAIN m : m[k].id = k

\* C27: every stored record's id field equals the key it is stored under,
\* in all five collections, also after a PUT of an organization or an event
\* whose body carries an id.
C27_IdIsKey ==
    /\ KeyedById(usersMap)
    /\ KeyedById(organizationsMap)
    /\ KeyedById(eventsMap)
    /\ KeyedById(eventParticipantsMap)
    /\ KeyedById(savedOrganizationsMap)

\* the saved rows of user u for organization o
RowsOf(saved, u, o) ==
    {k \in DOMAIN saved : saved[k].userId = u /\ saved[k].organizationId = o}

\* C28: after an unsave by user u for organization o is answered 204, no
\* row (u, o) is left and the saved organizations of u do not list o; a save
\* by u for o that follows is answered 201.
C28_UnsaveThenSave ==
    [][/\ (res'.op = "unsave" /\ res'.status = 204) =>
            LET listed == getSavedOrganizations(savedOrganizationsMap',
                                                organizationsMap', res'.user)
            IN
            /\ RowsOf(savedOrganizationsMap', res'.user, res'.target) = {}
            /\ res'.target \in DOMAIN organizationsMap' =>
                   \A i \in 1..Len(listed) : listed[i] # organizationsMap'[res'.target]
       /\ ( /\ res.op = "unsave" /\ res.status = 204
            /\ res'.op = "save"
            /\ res'.client = res.client /\ res'.user = res.user
            /\ res'.target = res.target
            /\ res.target \in DOMAIN organizationsMap ) =>
            res'.status = 201
      ]_vars

\* the fields PUT /api/user/profile may change
ProfileFields == {"name", "bio", "interests"}

\* C29: PUT /api/user/profile changes only name, bio and interests of the
\* principal's row: the row's other fields, every other user row and all
\* other collections stay as they were; and no request deletes a user row.
C29_ProfileOnly ==
    [][/\ DOMAIN usersMap \subseteq DOMAIN usersMap'
       /\ res'.op = "putProfile" =>
            LET principal == sessions[res'.client] IN
            /\ UNCHANGED <<userIdCounter, orgVars, eventVars, participantVars,
                           savedVars, sessions>>
            /\ DOMAIN usersMap' = DOMAIN usersMap
            /\ \A u \in DOMAIN usersMap \ {principal} : usersMap'[u] = usersMap[u]
            /\ res'.status # 200 => usersMap' = usersMap
            /\ res'.status = 200 =>
                 \A f \in (DOMAIN usersMap[principal] \cup DOMAIN usersMap'[principal])
                          \ ProfileFields :
                    /\ f \in DOMAIN usersMap[principal]
                    /\ f \in DOMAIN usersMap'[principal]
                    /\ usersMap'[principal][f] = usersMap[principal][f]
      ]_vars

\* a user who is no organizer sent a profile body that also carries
\* isOrganizer and a password, while another user and a saved row are stored
C29_Witness ==
    /\ res.op = "putProfile" /\ res.status = 200
    /\ usersMap[res.user].name = "Ann B."
    /\ ~usersMap[res.user].isOrganizer
    /\ Cardinality(DOMAIN usersMap) = 2
    /\ DOMAIN savedOrganizationsMap # {}

\* C30: a browser has a session only after a registration or login of its
\* own that succeeded, with that user as principal; a logout ends it, and
\* from then on every guarded route answers 401 until the next successful
\* login or registration; the principal is read from the store by its id on
\* each request, so GET /api/user shows the user as stored now.
C30_SessionLifecycle ==
    /\ \A c \in Clients : sessions[c] = 0
    /\ [][/\ \A c \in Clients : sessions'[c] # sessions[c] =>
                /\ res'.client = c
                /\ \/ /\ res'.op = "register" /\ res'.status = 201
                      /\ sessions'[c] = res'.user
                      /\ res'.user \notin DOMAIN usersMap
                      /\ usersMap'[res'.user].username = res'.name
                   \/ /\ res'.op = "login" /\ res'.status = 200
                      /\ sessions'[c] = res'.user
                      /\ toLowerCase(usersMap[res'.user].username) = toLowerCase(res'.name)
                   \/ /\ res'.op = "logout"
                      /\ sessions'[c] = 0
          /\ res'.op = "logout" => sessions'[res'.client] = 0
          /\ res'.op \in GuardedOps =>
                (res'.status = 401 <=> sessions[res'.client] = 0)
          /\ (res'.op = "getUser" /\ res'.status = 200) =>
                /\ sessions[res'.client] \in DOMAIN usersMap
                /\ \A f \in DOMAIN res'.body[1] :
                      res'.body[1][f] = usersMap[sessions[res'.client]][f]
         ]_vars

\* a signed-in user who changed their profile reads it back
C30_Witness ==
    /\ res.op = "getUser" /\ res.status = 200
    /\ sessions[res.client] = res.user
    /\ "name" \in DOMAIN res.body[1] /\ res.body[1].name = "Ann B."

====
